---------------------------- MODULE Spec2Model ----------------------------
(***************************************************************************)
(* mail-reflector: the IMAP -> SMTP relay engine (package reflector).      *)
(*                                                                         *)
(* The model covers one INBOX on an IMAP server, the session the program   *)
(* holds on it, and the three drivers of a "pass" (fetch, forward, mark    *)
(* seen):                                                                  *)
(*   mode = "check"   CheckAndForward            (check.go)                *)
(*   mode = "serve"   Serve with the imapConn wrapper (serve.go:14-162)    *)
(*   mode = "legacy"  Serve with a bare client   (unnamed/part_003)        *)
(*                                                                         *)
(* The IMAP server follows RFC 3501: SEARCH returns message sequence       *)
(* numbers, UID FETCH / UID STORE address messages by UID, a FETCH of      *)
(* BODY[] (not BODY.PEEK[]) sets \Seen when the mailbox is selected        *)
(* read-write.  Every command may fail; a STORE on a mailbox selected       *)
(* read-only (EXAMINE) is refused by servers that enforce RFC 3501 and the *)
(* model lets the server answer either way.                                *)
(***************************************************************************)
EXTENDS Integers, Sequences, FiniteSets, TLC

\* ------------------------------------------------------------------ bounds
MaxUID == 2          \* UIDs of the INBOX are drawn from 1..MaxUID
MaxPasses == 2       \* passes per behaviour of Spec
RetryPasses == 4     \* passes per behaviour of SpecRetry (one poison message)
MaxFails == 1        \* consecutive failed connects of Serve in Spec
RetryFails == 7      \* consecutive failed connects of Serve in SpecRetry
LivePasses == 2      \* passes per behaviour of SpecLive
LiveFails == 2       \* consecutive failed connects of Serve in SpecLive
DownPasses == 2      \* passes per behaviour of SpecDown
DownFails == 1       \* consecutive failed connects of Serve in SpecDown
PairPasses == 2      \* passes per behaviour of SpecPair
SparseMax == 3       \* largest UID of a mailbox of SpecSparse
SparsePasses == 2    \* runs of the check command per behaviour of SpecSparse
SparseFails == 1     \* failed connects per behaviour of SpecSparse
MaxSessions == 2     \* session ids the dashboard issues in SpecWeb
MaxRequests == 2     \* requests to protected pages in progress at a time
MaxClock == 48       \* hours the clock of SpecWeb runs
TickHours == 12      \* hours between two instants of the clock of SpecWeb
PairFails == 1       \* consecutive failed connects of Serve in SpecPair
MaxParts == 4        \* parts of a multipart entity given to extractBodies

\* --------------------------------------------------------------- constants
\* The candidate "Sent" folder names of saveToSent, by position in the list.
NumSentFolders == 9

\* Serve (serve.go): the reconnect delay is attempts * 10 s, attempts being
\* the attempt counter clipped to 6, and the result clipped to 5 minutes.
\* Delays are in seconds.
BackoffUnit == 10
BackoffAttemptCap == 6
BackoffMaxDelay == 300

\* Serve (part_003, serve.go:177): a fixed sleep of 30 s.
LegacyDelay == 30

\* ------------------------------------------------------------ environment
\* First From address of a message as the envelope carries it; NoFrom is an
\* envelope with an empty From list.
NoFrom == "<none>"
FromAddrs == {NoFrom, "Board@Org.Example", "eve@org.example"}

\* Values of the configuration key filter.from.
FilterConfigs == {<<"BOARD@org.example">>, <<"eve@org.example", "board@org.example">>}

\* strings.ToLower on the addresses of the model.
ToLower(s) ==
    CASE s = "Board@Org.Example" -> "board@org.example"
      [] s = "BOARD@org.example" -> "board@org.example"
      [] OTHER -> s

Modes == {"check", "serve", "legacy"}

\* No message function is being applied.
NoInput == [kind |-> "none"]
NoOutput == [kind |-> "none"]

\* The web dashboard is not part of the run.
WebOff == [kind |-> "off"]

VARIABLES
    mode,       \* which driver runs (fixed by Init)
    filterFrom, \* config filter.from (fixed by Init)
    uids,       \* UIDs of the messages in INBOX (fixed by Init)
    fromOf,     \* uid -> first From address (fixed by Init)
    seen0,      \* the UIDs that carried \Seen before the program ran (fixed)
    seen,       \* set of UIDs that carry \Seen on the server
    sess,       \* session: "none" | "rw" | "ro" | "nosel" | "out" | "orphan"
    idling,     \* an IDLE request is outstanding on the session
    cmd,        \* IMAP command the last step issued, "none" if it issued none
    loop,       \* position of the driver (CheckAndForward / Serve)
    pc,         \* position of the pass, "off" when no pass runs
    work,       \* the single-flight permit of Serve is taken
    cancelled,  \* ctx.Done() of Serve
    deadline,   \* the enclosing fetch context (imapFetchTimeout) has expired
    found,      \* result of Search in this pass
    valid,      \* validUIDs still to fetch in phase 2
    results,    \* MailSummary list under construction / being forwarded
    idx,        \* index into results of the message being forwarded
    folder,     \* saveToSent: index of the candidate folder being tried
    passes,     \* number of passes started
    passErr,    \* what the last finished pass returned: "none" | "nil" | "err"
    attempt,    \* connectionAttempt of Serve (serve.go)
    delay,      \* seconds of the backoff sleep in progress, 0 when none
    arriving,   \* UIDs of uids that have not been delivered to INBOX yet
    input,      \* argument of extractBodies / ForwardMail's composition
    output,     \* what the function returned for input, NoOutput before
    web,        \* the web dashboard: clock, session store, requests in progress
    h           \* history of the current pass and of the run (not program state)

vars == <<mode, filterFrom, uids, fromOf, seen0, seen, sess, idling, cmd, loop, pc, work,
          cancelled, deadline, found, valid, results, idx, folder, passes, passErr,
          attempt, delay, arriving, input, output, web, h>>

config == <<mode, filterFrom, uids, fromOf, seen0>>

conn == <<attempt, delay>>

\* What no step of a pass or of a driver changes: the deliveries still to
\* come, and the argument and result of the message functions.
aside == <<arriving, input, output, web>>

\* ------------------------------------------------------------------ helpers
Min(S) == CHOOSE x \in S : \A y \in S : x <= y

\* The messages INBOX holds.
Inbox == uids \ arriving

\* Message sequence number of a UID: its rank among the UIDs of the mailbox.
SeqOf(u) == Cardinality({v \in Inbox : v <= u})

InList(x, list) == \E i \in 1..Len(list) : list[i] = x

\* fetchMatchingMessages: the filter list lowercased entry by entry.
NormalizedFilters(list) == [i \in 1..Len(list) |-> ToLower(list[i])]

\* isFromAddressMatching: false without a From address, else the lowercased
\* first From address is looked up in the normalized list.
isFromAddressMatching(from, normalizedFilters) ==
    IF from = NoFrom THEN FALSE
    ELSE InList(ToLower(from), normalizedFilters)

\* The alternative the code does not take: a search without criteria.
SearchAll == {SeqOf(u) : u \in Inbox}

\* client.Search(criteria) with WithoutFlags = {\Seen}: SEARCH UNSEEN, which
\* answers with message sequence numbers.
SearchUnseen == {SeqOf(u) : u \in Inbox \ seen}

\* client.UidFetch(seqset, ...): the messages whose UID is in the set.
UidFetchSet(nums) == {u \in Inbox : u \in nums}

\* The fetch item of fetchSingleMessage: section := &imap.BodySectionName{}
\* leaves Peek false, so the item is BODY[] and not BODY.PEEK[].
FetchIsPeek == FALSE

\* Flags after the server served a body fetch of uid on a session in state s.
SeenAfterBodyFetch(u, s) ==
    IF ~FetchIsPeek /\ s = "rw" THEN seen \cup {u} ELSE seen

\* saveToSent selects INBOX with readOnly = true before listing and appending.
SaveToSentSelectsReadOnly == TRUE

\* A session on which the server executes commands for a selected mailbox.
Selected(s) == s \in {"rw", "ro"}

\* The ProblematicUID registry of the design: a UID is to be skipped once its
\* consecutive failures reach this count.
FailureThreshold == 3

\* ------------------------------------------------------------------ history
\* Of the current pass: unseen (UIDs without \Seen when it began), phase1
\* ("no", "ok", "err": how validateUIDs returned), validated (phase-1
\* result), tried / errs (UIDs fetched / failed in phase 2), aborted
\* (the phase-2 loop was left early), fetched ("no", "ok", "err": how the fetch
\* returned) with ret (the UIDs of the summaries returned), and log (the
\* events of the forward loop in order).  When the run is recorded in detail,
\* of the saveToSent call in progress or last made: copies (the number of
\* appends that succeeded), archived ("none" while it runs, then "nil" or
\* "err": what it returned) and last (how its last append was answered).
PassHist(unseen) ==
    [unseen |-> unseen, phase1 |-> "no", validated |-> {}, tried |-> {}, errs |-> {},
     aborted |-> FALSE, fetched |-> "no", ret |-> {}, log |-> <<>>,
     copies |-> 0, archived |-> "none", last |-> "none"]

\* sent: UIDs with a successful SMTP send so far.  fails: consecutive failed
\* phase-2 fetches per UID, recorded for the UIDs of its domain.  late: some
\* UID was fetched again after FailureThreshold consecutive failures.
\* cf: consecutive failed connects of Serve (serve.go) so far.  cp: passes
\* started on the current connection.  since: what preceded the last
\* successful connect of Serve (serve.go): "none" (no connect yet), "clean"
\* (no failure) or "retried" (some failures); "off" when not recorded.
\* stale: a command whose caller gave up waiting (timeout) is still
\* outstanding on the session: "yes" or "no"; "off" when the run is not
\* recorded in detail.  dropped: UIDs delivered while the permit of Serve was
\* taken, so that their notification was dropped.  picked: those of them that
\* were unseen in INBOX when a later search was answered.  prev: whether in
\* the previous run of the check command the servers accepted every request
\* they received: "none" (no run yet), "clean" or "unclean"; "off" when the
\* run is not recorded in detail.
InitHist(tracked, since, stale) ==
    [sent |-> {}, fails |-> [u \in tracked |-> 0], late |-> FALSE, cf |-> 0, cp |-> 0,
     since |-> since, stale |-> stale, dropped |-> {}, picked |-> {},
     prev |-> IF stale = "off" THEN "off" ELSE "none", p |-> PassHist({})]

\* The run is recorded in detail.
Detailed == h.stale # "off"

\* hist after a command was issued whose caller gave up waiting (timedOut)
\* or waited for the answer.
Outstanding(hist, timedOut) ==
    IF hist.stale # "off" /\ timedOut THEN [hist EXCEPT !.stale = "yes"] ELSE hist

Ev(kind, u, ok) == [kind |-> kind, uid |-> u, ok |-> ok]

Logged(e) == [h EXCEPT !.p.log = Append(@, e)]

\* The driver leaves the pass: the history of the pass is closed.
EndPass == [h EXCEPT !.p = PassHist({})]

\* ---------------------------------------------------------------- initial
Mailboxes == SUBSET (1..MaxUID)

\* Mailboxes from which the message with UID 1 has been expunged.
SparseMailboxes == {b \in SUBSET (1..SparseMax) : b # {} /\ 1 \notin b}

\* The configuration and the mailbox, drawn from boxes.
InitMailbox(boxes) ==
    /\ filterFrom \in FilterConfigs
    /\ uids \in boxes
    /\ fromOf \in [uids -> FromAddrs]
    /\ seen0 \in SUBSET uids
    /\ seen = seen0

\* The program before its first step.
InitProgram ==
    /\ sess = "none"
    /\ idling = FALSE
    /\ cmd = "none"
    /\ loop = "connect"
    /\ pc = "off"
    /\ work = FALSE
    /\ cancelled = FALSE
    /\ deadline = FALSE
    /\ found = {}
    /\ valid = {}
    /\ results = <<>>
    /\ idx = 0
    /\ folder = 0
    /\ passes = 0
    /\ passErr = "none"
    /\ attempt = 0
    /\ delay = 0

InitCommon == InitMailbox(Mailboxes) /\ InitProgram

\* Every message is in INBOX and no message function is being applied.
InitAside == arriving = {} /\ input = NoInput /\ output = NoOutput /\ web = WebOff

Init == mode \in Modes /\ InitCommon /\ InitAside /\ h = InitHist({}, "off", "off")

\* ------------------------------------------------------------ fetch (pass)
\* FetchMatchingMails (the one-shot check) logs the session out in a deferred
\* call before it hands the client back; the Serve drivers keep the session.
FetchReturnSess(s) == IF mode = "check" THEN "out" ELSE s

\* Return from the fetch with list res (err: the call failed).  An empty list
\* ends the pass with nil; a failure ends it with the error.
FetchReturn(res, err, s, hist) ==
    /\ sess' = FetchReturnSess(s)
    /\ h' = [hist EXCEPT !.p.fetched = IF err THEN "err" ELSE "ok",
                         !.p.ret = IF err THEN {} ELSE {res[i].uid : i \in 1..Len(res)}]
    /\ found' = {}
    /\ valid' = {}
    /\ folder' = 0
    /\ IF err
         THEN /\ pc' = "done" /\ passErr' = "err" /\ results' = <<>> /\ idx' = 0
         ELSE IF Len(res) = 0
                THEN /\ pc' = "done" /\ passErr' = "nil" /\ results' = <<>> /\ idx' = 0
                ELSE /\ pc' = "smtp" /\ passErr' = passErr /\ results' = res /\ idx' = 1

\* The imapConn wrapper stops an outstanding IDLE before the pass issues its
\* first command.
WithConnStopIdle ==
    /\ mode = "serve" /\ pc = "search" /\ idling
    /\ idling' = FALSE
    /\ cmd' = "none"
    /\ UNCHANGED <<config, aside, conn, seen, sess, loop, pc, work, cancelled, deadline, found,
                   valid, results, idx, folder, passes, passErr, h>>

\* fetchMatchingMessages up to the call of fetchMessagesRobustly.
Search ==
    /\ pc = "search"
    /\ mode = "serve" => ~idling
    /\ cmd' = "search"
    /\ \E ok \in BOOLEAN :
         /\ ok => Selected(sess)
         /\ LET hist == [h EXCEPT !.picked = @ \cup (h.dropped \cap (Inbox \ seen))]
            IN  IF ~ok THEN FetchReturn(<<>>, TRUE, sess, h)
                ELSE IF SearchUnseen = {} THEN FetchReturn(<<>>, FALSE, sess, hist)
                ELSE /\ found' = SearchUnseen
                     /\ pc' = "validate"
                     /\ h' = hist
                     /\ UNCHANGED <<sess, valid, results, idx, folder, passErr>>
    /\ UNCHANGED <<config, aside, conn, seen, idling, loop, work, cancelled, deadline, passes>>

\* The alternative the code does not take: a failed validation counts as a
\* validation without valid UIDs.
ValidationTolerated(ok) == FALSE

\* fetchMessagesRobustly: an error of validateUIDs (a failed or timed-out
\* command) is returned as the error of the call.
ValidationAborts(ok) == ~ok

\* validateUIDs (phase 1) and the two early returns of fetchMessagesRobustly.
Validate ==
    /\ pc = "validate"
    /\ cmd' = "uidfetch"
    /\ \E ok \in BOOLEAN, timedOut \in BOOLEAN :
         /\ ok => Selected(sess) /\ ~timedOut
         /\ LET validUIDs == IF ok THEN UidFetchSet(found) ELSE {}
                hist == [Outstanding(h, timedOut)
                            EXCEPT !.p.phase1 = IF ok THEN "ok" ELSE "err",
                                   !.p.validated = validUIDs]
            IN  IF ValidationAborts(ok) THEN FetchReturn(<<>>, TRUE, sess, hist)
                ELSE IF validUIDs = {} THEN FetchReturn(<<>>, FALSE, sess, hist)
                ELSE /\ valid' = validUIDs
                     /\ pc' = "fetch"
                     /\ h' = hist
                     /\ UNCHANGED <<sess, found, results, idx, folder, passErr>>
    /\ UNCHANGED <<config, aside, conn, seen, idling, loop, work, cancelled, deadline, passes>>

\* The enclosing context of FetchMatchingMailsWithClient expires between two
\* messages of phase 2.
DeadlineExpires ==
    /\ pc = "fetch" /\ ~deadline /\ valid # {}
    /\ deadline' = TRUE
    /\ cmd' = "none"
    /\ UNCHANGED <<config, aside, conn, seen, sess, idling, loop, pc, work, cancelled, found, valid,
                   results, idx, folder, passes, passErr, h>>

\* The ctx.Done() check at the head of the phase-2 loop.
FetchAbort ==
    /\ pc = "fetch" /\ valid # {} /\ deadline
    /\ cmd' = "none"
    /\ FetchReturn(<<>>, TRUE, sess, [h EXCEPT !.p.aborted = TRUE])
    /\ UNCHANGED <<config, aside, conn, seen, idling, loop, work, cancelled, deadline, passes>>

MailSummary(u) == [uid |-> u, from |-> fromOf[u]]

\* The alternative the code does not take: a summary for every fetched
\* message.
SummaryKeptAlways(matches) == TRUE

\* fetchSingleMessage: a message that does not match the filter yields no
\* summary.
SummaryKept(matches) == matches

FetchOutcomes == {"ok", "parse", "err", "timeout"}

\* Per-UID bookkeeping of fetchMessagesRobustly on a failed / successful fetch.
\* The function keeps no failure counter: h.fails only records what happened.
NoteFetch(u, failed) ==
    [h EXCEPT !.late = @ \/ (u \in DOMAIN h.fails /\ h.fails[u] >= FailureThreshold),
              !.p.tried = @ \cup {u},
              !.p.errs = IF failed THEN @ \cup {u} ELSE @,
              !.fails = [v \in DOMAIN @ |-> IF v # u THEN @[v]
                                            ELSE IF failed THEN @[v] + 1 ELSE 0]]

\* The alternative the code does not take: a failed fetch ends the loop.
RemainingAfterAbort(u, failed) == IF failed THEN {} ELSE valid \ {u}

\* The UIDs left for the loop after uid was handled: a failed fetch is logged
\* and the loop continues.
RemainingAfter(u, failed) == valid \ {u}

\* One iteration of the phase-2 loop: fetchSingleMessage for the next UID.
FetchNext ==
    /\ pc = "fetch" /\ valid # {} /\ ~deadline
    /\ LET u == Min(valid)
           m == isFromAddressMatching(fromOf[u], NormalizedFilters(filterFrom))
       IN  /\ cmd' = "uidfetch"
           /\ \E o \in FetchOutcomes, served \in BOOLEAN, dl \in BOOLEAN :
                /\ o \in {"ok", "parse"} => served /\ Selected(sess)
                /\ o = "parse" => m
                /\ o = "err" => ~served
                /\ served => Selected(sess)
                /\ dl => o = "timeout"
                /\ deadline' = dl
                /\ valid' = RemainingAfter(u, o # "ok")
                /\ seen' = IF served THEN SeenAfterBodyFetch(u, sess) ELSE seen
                /\ results' = IF o = "ok" /\ SummaryKept(m) THEN Append(results, MailSummary(u))
                              ELSE results
                /\ h' = Outstanding(NoteFetch(u, o # "ok"), o = "timeout")
    /\ UNCHANGED <<config, aside, conn, sess, idling, loop, pc, work, cancelled, found, idx, folder,
                   passes, passErr>>

\* The loop is over: fetchMessagesRobustly returns the collected summaries.
FetchDone ==
    /\ pc = "fetch" /\ valid = {}
    /\ cmd' = "none"
    /\ FetchReturn(results, FALSE, sess, h)
    /\ UNCHANGED <<config, aside, conn, seen, idling, loop, work, cancelled, deadline, passes>>

\* ---------------------------------------------------------- forward (pass)
Cur == results[idx]

\* The alternative the code does not take: a failed forward or mark ends the pass with the error.
AdvanceAbort(failed) ==
    IF failed
      THEN /\ idx' = idx /\ pc' = "done" /\ passErr' = "err"
      ELSE IF idx < Len(results)
             THEN /\ idx' = idx + 1 /\ pc' = "smtp" /\ passErr' = passErr
             ELSE /\ idx' = idx /\ pc' = "done" /\ passErr' = "nil"

\* The range loop of the pass moves to the next message (after a failure:
\* log and continue), or the pass returns nil after the last one.
Advance(failed) ==
    IF idx < Len(results)
      THEN /\ idx' = idx + 1 /\ pc' = "smtp" /\ passErr' = passErr
      ELSE /\ idx' = idx /\ pc' = "done" /\ passErr' = "nil"

\* The alternative the code does not take: the archival follows any send.
ArchiveAlways(sent) == TRUE

\* ForwardMail: whether the archival (serialize, saveToSent) follows the one
\* call of dialer.DialAndSend: only when that call returned no error.
ArchiveAfterSend(sent) == sent

\* ForwardMail: dialer.DialAndSend.  A failed send is returned as an error and
\* the caller continues with the next message.
SmtpSend ==
    /\ pc = "smtp"
    /\ cmd' = "none"
    /\ \E ok \in BOOLEAN :
         /\ h' = IF ok THEN [Logged(Ev("smtp", Cur.uid, TRUE)) EXCEPT !.sent = @ \cup {Cur.uid}]
                 ELSE IF ArchiveAfterSend(ok) THEN h
                 ELSE Logged(Ev("fwd", Cur.uid, FALSE))
         /\ IF ArchiveAfterSend(ok)
              THEN pc' = "serialize" /\ UNCHANGED <<idx, passErr>>
              ELSE Advance(TRUE)
    /\ UNCHANGED <<config, aside, conn, seen, sess, idling, loop, work, cancelled, deadline, found,
                   valid, results, folder, passes>>

\* ForwardMail: msg.WriteTo(&buf) ahead of saveToSent; its failure is returned
\* as an error ("failed to serialize message").
Serialize ==
    /\ pc = "serialize"
    /\ cmd' = "none"
    /\ \E ok \in BOOLEAN :
         IF ok
           THEN /\ pc' = "sts_select" /\ UNCHANGED <<idx, passErr, h>>
           ELSE /\ h' = Logged(Ev("fwd", Cur.uid, FALSE)) /\ Advance(TRUE)
    /\ UNCHANGED <<config, aside, conn, seen, sess, idling, loop, work, cancelled, deadline, found,
                   valid, results, folder, passes>>

\* saveToSent: imapClient.Select("INBOX", true); its error is only logged.
SaveSelect ==
    /\ pc = "sts_select"
    /\ cmd' = "select"
    /\ \E ok \in BOOLEAN :
         /\ ok => sess \in {"rw", "ro", "nosel"}
         /\ sess' = IF sess \in {"none", "out"} THEN sess
                    ELSE IF ~ok THEN "nosel"
                    ELSE IF SaveToSentSelectsReadOnly THEN "ro" ELSE "rw"
    /\ pc' = "sts_list"
    /\ UNCHANGED <<config, aside, conn, seen, idling, loop, work, cancelled, deadline, found, valid,
                   results, idx, folder, passes, passErr, h>>

\* saveToSent: imapClient.List, for the debug log only.
SaveList ==
    /\ pc = "sts_list"
    /\ cmd' = "list"
    /\ pc' = "sts_append"
    /\ folder' = 1
    /\ h' = IF Detailed THEN [h EXCEPT !.p.copies = 0, !.p.archived = "none", !.p.last = "none"]
                 ELSE h
    /\ UNCHANGED <<config, aside, conn, seen, sess, idling, loop, work, cancelled, deadline, found,
                   valid, results, idx, passes, passErr>>

AppendOutcomes == {"ok", "nosuch", "nocont", "other"}

\* The alternative the code does not take: every error leads to the next
\* candidate.
AppendVerdictLenient(o) == IF o = "ok" THEN "done" ELSE "next"

\* The alternative the code does not take: every candidate is tried.
AppendVerdictTryAll(o) == "next"

\* saveToSent's verdict on an Append result: "done" (saved), "stop" (error
\* return at once) or "next" (try the next candidate).
AppendVerdict(o) ==
    CASE o = "ok" -> "done"
      [] o = "nocont" -> "stop"
      [] OTHER -> "next"

\* What ForwardMail returns once the send succeeded and saveToSent returned
\* (archived or not): always nil.
ForwardAfterArchive(archived) == TRUE

\* saveToSent: one Append to the candidate folder; when saveToSent returns,
\* ForwardMail logs the outcome and returns.
SaveAppend ==
    /\ pc = "sts_append"
    /\ cmd' = "append"
    /\ \E o \in AppendOutcomes :
         /\ sess \in {"none", "out"} => o = "other"
         /\ LET v == AppendVerdict(o)
                over == v # "next" \/ folder = NumSentFolders
                ret == IF ~over THEN "none" ELSE IF v = "done" THEN "nil" ELSE "err"
                hist == IF Detailed
                          THEN [h EXCEPT !.p.copies = IF o = "ok" THEN @ + 1 ELSE @,
                                         !.p.archived = ret,
                                         !.p.last = o]
                          ELSE h
            IN  IF ~over
                  THEN /\ folder' = folder + 1
                       /\ h' = hist
                       /\ UNCHANGED <<pc, idx, passErr>>
                  ELSE /\ folder' = 0
                       /\ IF ForwardAfterArchive(v = "done")
                            THEN /\ h' = [hist EXCEPT !.p.log = Append(@, Ev("fwd", Cur.uid, TRUE))]
                                 /\ pc' = "mark" /\ UNCHANGED <<idx, passErr>>
                            ELSE /\ h' = [hist EXCEPT !.p.log = Append(@, Ev("fwd", Cur.uid, FALSE))]
                                 /\ Advance(TRUE)
    /\ UNCHANGED <<config, aside, conn, seen, sess, idling, loop, work, cancelled, deadline, found,
                   valid, results, passes>>

\* markAsSeen: UID STORE +FLAGS.SILENT (\Seen) for the UID of the summary.
\* The pass logs a failure and continues.
MarkSeen ==
    /\ pc = "mark"
    /\ cmd' = "uidstore"
    /\ \E ok \in BOOLEAN :
         /\ ok => Selected(sess)
         /\ seen' = IF ok THEN seen \cup (Inbox \cap {Cur.uid}) ELSE seen
         /\ h' = Logged(Ev("mark", Cur.uid, ok))
         /\ Advance(~ok)
    /\ UNCHANGED <<config, aside, conn, sess, idling, loop, work, cancelled, deadline, found, valid,
                   results, folder, passes>>

\* ------------------------------------------------------------------ drivers
\* A pass begins: FetchMatchingMails* is entered with a fresh fetch context.
StartPass(hist) ==
    /\ pc' = "search"
    /\ passes' = passes + 1
    /\ deadline' = FALSE
    /\ found' = {} /\ valid' = {} /\ results' = <<>> /\ idx' = 0 /\ folder' = 0
    /\ passErr' = "none"
    /\ h' = [hist EXCEPT !.p = PassHist(Inbox \ seen)]

\* connectAndLoginWithTimeout: the ways the call fails.  "dial": DialTLS
\* returned an error; "timeout": the connect context expired first; "health",
\* "login", "select": the command failed on the open session.
ConnectErrors == {"dial", "timeout", "health", "login", "select"}

\* The session the failed call leaves behind.  After a command failure the
\* client is logged out.  After a timeout the dial goroutine is still running:
\* when DialTLS succeeds later (late), the client goes into the buffered
\* channel and nothing ever reads or closes it.
ConnectFailSess(o, late) ==
    CASE o = "dial" -> "none"
      [] o = "timeout" -> IF late THEN "orphan" ELSE "none"
      [] OTHER -> "out"

\* The last command connectAndLoginWithTimeout issued before it returned the
\* error: the Logout after a failed command, none when no client was obtained.
ConnectFailCmd(o) == IF o \in {"dial", "timeout"} THEN "none" ELSE "logout"

\* Serve (serve.go): the delay slept after a failed connect, by the value of
\* connectionAttempt (already incremented for the failed attempt).
BackoffDelay(n) ==
    LET attempts == IF n > BackoffAttemptCap THEN BackoffAttemptCap ELSE n
        d == attempts * BackoffUnit
    IN  IF d > BackoffMaxDelay THEN BackoffMaxDelay ELSE d

\* The alternative the code does not take: the counter survives a connect.
AttemptKept(n) == n

\* Serve (serve.go): connectionAttempt after a successful connect.
AttemptAfterConnect(n) == 0

\* connectAndLogin succeeded (INBOX selected read-write) and the driver runs
\* its first pass on the new session: CheckAndForward's only pass, or the
\* "initial check" of Serve.
ConnectOk(limit) ==
    /\ loop = "connect" /\ pc = "off" /\ passes < limit
    /\ mode = "serve" => ~cancelled
    /\ sess' = "rw"
    /\ idling' = FALSE
    /\ cmd' = "select"
    /\ loop' = "initial"
    /\ attempt' = IF mode = "serve" THEN AttemptAfterConnect(attempt + 1) ELSE attempt
    /\ delay' = 0
    /\ StartPass([h EXCEPT !.cp = 1, !.cf = 0,
                           !.stale = IF @ = "off" THEN @ ELSE "no",
                           !.since = IF @ = "off" \/ mode # "serve" THEN @
                                     ELSE IF h.cf > 0 THEN "retried" ELSE "clean"])
    /\ UNCHANGED <<config, aside, seen, work, cancelled>>

\* connectAndLogin failed: CheckAndForward returns the error, Serve computes
\* its delay and sleeps.
ConnectFail(limit, cap) ==
    /\ loop = "connect" /\ pc = "off" /\ passes < limit
    /\ mode = "serve" => ~cancelled /\ attempt < cap
    /\ \E o \in ConnectErrors, late \in BOOLEAN :
         /\ late => o = "timeout"
         /\ cmd' = ConnectFailCmd(o)
         /\ sess' = ConnectFailSess(o, late)
    /\ idling' = FALSE
    /\ CASE mode = "check" ->
              loop' = "returned" /\ passErr' = "err" /\ UNCHANGED <<attempt, delay, h>>
         [] mode = "serve" ->
              /\ loop' = "backoff" /\ passErr' = passErr
              /\ attempt' = attempt + 1
              /\ delay' = BackoffDelay(attempt + 1)
              /\ h' = [h EXCEPT !.cf = @ + 1]
         [] OTHER ->
              /\ loop' = "backoff" /\ passErr' = passErr
              /\ delay' = LegacyDelay
              /\ UNCHANGED <<attempt, h>>
    /\ UNCHANGED <<config, aside, seen, pc, work, cancelled, deadline, found, valid, results,
                   idx, folder, passes>>

\* time.Sleep(delay) is over and the loop starts its next iteration.
BackoffDone ==
    /\ loop = "backoff"
    /\ loop' = "connect"
    /\ delay' = 0
    /\ cmd' = "none"
    /\ UNCHANGED <<config, aside, attempt, seen, sess, idling, pc, work, cancelled, deadline,
                   found, valid, results, idx, folder, passes, passErr, h>>

\* In the pass with history p the search, the validation, every fetch and
\* every SMTP send succeeded, and the last forward got as far as saveToSent.
CleanPass(p) ==
    /\ p.phase1 # "err" /\ p.fetched = "ok" /\ p.errs = {} /\ ~p.aborted
    /\ \A i \in 1..Len(p.log) : p.log[i].kind = "smtp" => p.log[i].ok
    /\ \A u \in p.ret : \E i \in 1..Len(p.log) : p.log[i] = Ev("smtp", u, TRUE)
    /\ p.ret # {} => p.archived # "none"

\* The history when a run of the check command ends.
EndCheck ==
    [EndPass EXCEPT !.prev = IF @ = "off" THEN @
                             ELSE IF CleanPass(h.p) THEN "clean" ELSE "unclean"]

\* CheckAndForward returns; the deferred client.Logout() runs.
CheckReturn ==
    /\ mode = "check" /\ loop = "initial" /\ pc = "done"
    /\ cmd' = "logout"
    /\ sess' = "out"
    /\ loop' = "returned"
    /\ pc' = "off"
    /\ results' = <<>> /\ idx' = 0 /\ deadline' = FALSE /\ h' = EndCheck
    /\ UNCHANGED <<config, aside, conn, seen, idling, work, cancelled, found, valid, folder,
                   passes, passErr>>

\* The next run of the check command (cron): a new process.
CheckAgain(limit) ==
    /\ mode = "check" /\ loop = "returned" /\ passes < limit
    /\ loop' = "connect"
    /\ sess' = "none"
    /\ cmd' = "none"
    /\ h' = [h EXCEPT !.fails = [u \in DOMAIN @ |-> 0]]
    /\ UNCHANGED <<config, aside, conn, seen, idling, pc, work, cancelled, deadline, found, valid,
                   results, idx, folder, passes, passErr>>

\* The signal context of the serve command is cancelled.  Serve reads it at
\* the head of its loop and in its select only, so the step is taken there.
Cancel ==
    /\ mode # "check" /\ ~cancelled /\ loop \in {"connect", "select"}
    /\ cancelled' = TRUE
    /\ cmd' = "none"
    /\ UNCHANGED <<config, aside, conn, seen, sess, idling, loop, pc, work, deadline, found, valid,
                   results, idx, folder, passes, passErr, h>>

\* The signal context is cancelled while Serve is somewhere else: sleeping,
\* or running a pass on the main goroutine.
CancelElsewhere ==
    /\ mode # "check" /\ ~cancelled /\ loop \in {"backoff", "initial", "processing"}
    /\ cancelled' = TRUE
    /\ cmd' = "none"
    /\ UNCHANGED <<config, aside, conn, seen, sess, idling, loop, pc, work, deadline, found, valid,
                   results, idx, folder, passes, passErr, h>>

\* Serve (serve.go): the ctx.Done() check at the head of the connection loop.
ServeCancelledAtTop ==
    /\ mode = "serve" /\ loop = "connect" /\ cancelled
    /\ loop' = "returned"
    /\ cmd' = "none"
    /\ UNCHANGED <<config, aside, conn, seen, sess, idling, pc, work, cancelled, deadline, found, valid,
                   results, idx, folder, passes, passErr, h>>

\* The alternative the code does not take: no IDLE after a failed pass.
AfterInitialPassStrict(err) == IF err = "err" THEN "reconnect" ELSE "idle"

\* Serve (serve.go): what follows the initial pass, by what it returned: its
\* error is only logged and IDLE is started.
AfterInitialPass(err) == "idle"

\* Serve (serve.go): after the initial pass, imapConn.startIdle(); on failure
\* the connection is closed and the loop reconnects.
ServeStartIdle ==
    /\ mode = "serve" /\ loop = "initial" /\ pc = "done"
    /\ pc' = "off"
    /\ IF AfterInitialPass(passErr) = "idle"
         THEN /\ cmd' = "idle"
              /\ \E ok \in BOOLEAN :
                   /\ ok => sess \in {"rw", "ro", "nosel"}
                   /\ IF ok THEN idling' = TRUE /\ loop' = "select" /\ sess' = sess
                      ELSE idling' = FALSE /\ loop' = "connect" /\ sess' = "out"
         ELSE cmd' = "logout" /\ idling' = FALSE /\ loop' = "connect" /\ sess' = "out"
    /\ results' = <<>> /\ idx' = 0 /\ deadline' = FALSE /\ h' = EndPass
    /\ UNCHANGED <<config, aside, conn, seen, work, cancelled, found, valid, folder, passes,
                   passErr>>

\* The alternative the code does not take: a send that never finds the
\* channel full.
PermitIgnored(w) == TRUE

\* select { case work <- struct{}{}: ... default: ... } on a channel of
\* capacity 1: the send is taken when the channel is empty.
PermitFree(w) == ~w

\* Serve (serve.go): a MailboxUpdate arrives and the permit is free: the
\* worker goroutine takes it and runs a pass.
ServeUpdate(limit) ==
    /\ mode = "serve" /\ loop = "select" /\ PermitFree(work) /\ passes < limit
    /\ work' = TRUE
    /\ cmd' = "none"
    /\ StartPass([h EXCEPT !.cp = @ + 1])
    /\ UNCHANGED <<config, aside, conn, seen, sess, idling, loop, cancelled>>

\* Serve (serve.go): a MailboxUpdate arrives while the permit is taken.
ServeUpdateDropped ==
    /\ mode = "serve" /\ loop = "select" /\ work
    /\ cmd' = "none"
    /\ UNCHANGED <<config, aside, conn, seen, sess, idling, loop, pc, work, cancelled, deadline, found,
                   valid, results, idx, folder, passes, passErr, h>>

\* Serve (serve.go): the worker restarts IDLE after its pass and releases the
\* permit; a failure to restart is only logged.
ServeWorkerDone ==
    /\ mode = "serve" /\ work /\ pc = "done"
    /\ pc' = "off"
    /\ work' = FALSE
    /\ cmd' = "idle"
    /\ \E ok \in BOOLEAN :
         /\ ok => sess \in {"rw", "ro", "nosel"}
         /\ idling' = ok
    /\ results' = <<>> /\ idx' = 0 /\ deadline' = FALSE /\ h' = EndPass
    /\ UNCHANGED <<config, aside, conn, seen, sess, loop, cancelled, found, valid, folder,
                   passes, passErr>>

\* Serve (serve.go): ctx.Done() in the select: imapConn.close() and return.
ServeShutdown ==
    /\ mode = "serve" /\ loop = "select" /\ cancelled
    /\ loop' = "returned"
    /\ idling' = FALSE
    /\ sess' = "out"
    /\ cmd' = "logout"
    /\ UNCHANGED <<config, aside, conn, seen, pc, work, cancelled, deadline, found, valid, results, idx,
                   folder, passes, passErr, h>>

\* Serve (part_003): setupIDLE after the initial pass, whatever it returned.
setupIDLE ==
    /\ mode = "legacy" /\ loop = "initial" /\ pc = "done"
    /\ pc' = "off"
    /\ idling' = TRUE
    /\ loop' = "select"
    /\ cmd' = "idle"
    /\ results' = <<>> /\ idx' = 0 /\ deadline' = FALSE /\ h' = EndPass
    /\ UNCHANGED <<config, aside, conn, seen, sess, work, cancelled, found, valid, folder,
                   passes, passErr>>

\* Serve (part_003): case update := <-idle.updates with a MailboxUpdate:
\* processMessages is called on the client at once.
LegacyUpdate(limit) ==
    /\ mode = "legacy" /\ loop = "select" /\ passes < limit
    /\ loop' = "processing"
    /\ cmd' = "none"
    /\ StartPass([h EXCEPT !.cp = @ + 1])
    /\ UNCHANGED <<config, aside, conn, seen, sess, idling, work, cancelled>>

\* Serve (part_003): processMessages returned; the for loop starts over with a
\* new connectAndLogin.
LegacyProcessed ==
    /\ mode = "legacy" /\ loop = "processing" /\ pc = "done"
    /\ pc' = "off"
    /\ loop' = "connect"
    /\ cmd' = "none"
    /\ results' = <<>> /\ idx' = 0 /\ deadline' = FALSE /\ h' = EndPass
    /\ UNCHANGED <<config, aside, conn, seen, sess, idling, work, cancelled, found, valid,
                   folder, passes, passErr>>

\* Serve (part_003): case err := <-idle.done: close(stop), Logout, continue.
LegacyIdleDone ==
    /\ mode = "legacy" /\ loop = "select" /\ idling
    /\ idling' = FALSE
    /\ sess' = "out"
    /\ loop' = "connect"
    /\ cmd' = "logout"
    /\ UNCHANGED <<config, aside, conn, seen, pc, work, cancelled, deadline, found, valid, results, idx,
                   folder, passes, passErr, h>>

\* Serve (part_003): case <-ctx.Done(): shutdownIDLE stops IDLE, logs out,
\* and Serve returns.
shutdownIDLE ==
    /\ mode = "legacy" /\ loop = "select" /\ cancelled
    /\ idling' = FALSE
    /\ sess' = "out"
    /\ loop' = "returned"
    /\ cmd' = "logout"
    /\ UNCHANGED <<config, aside, conn, seen, pc, work, cancelled, deadline, found, valid, results, idx,
                   folder, passes, passErr, h>>

\* ------------------------------------------------- shutdownIDLE, step by step
\* shutdownIDLE (part_003) in the steps its two selects divide it into.  loop
\* is "stopping" after close(stop) and "logout" while the logout goroutine
\* runs.  idling stays TRUE as long as the idle goroutine has not ended, sess
\* becomes "out" when the Logout command completes.

\* The alternative the code does not take: a wait for the logout without
\* timer.
LogoutWaitUnbounded == FALSE

\* The second select has the case <-time.After(3 * time.Second).
LogoutWaitBounded == TRUE

\* The first select has the case <-time.After(5 * time.Second).
IdleWaitBounded == TRUE

\* case <-ctx.Done() of Serve: shutdownIDLE is entered and closes stop.
ShutdownCloseStop ==
    /\ mode = "legacy" /\ loop = "select" /\ cancelled
    /\ loop' = "stopping"
    /\ cmd' = "none"
    /\ UNCHANGED <<config, aside, conn, seen, sess, idling, pc, work, cancelled, deadline, found,
                   valid, results, idx, folder, passes, passErr, h>>

\* The idle goroutine ends: idleClient.Idle returns and done receives.
IdleGoroutineEnds ==
    /\ mode = "legacy" /\ loop \in {"stopping", "logout"} /\ idling
    /\ idling' = FALSE
    /\ cmd' = "none"
    /\ UNCHANGED <<config, aside, conn, seen, sess, loop, pc, work, cancelled, deadline, found,
                   valid, results, idx, folder, passes, passErr, h>>

\* The first select is over (done was received, or 5 s have passed): the
\* goroutine that calls imapClient.Logout() is started.
ShutdownWaitIdle ==
    /\ mode = "legacy" /\ loop = "stopping"
    /\ ~idling \/ IdleWaitBounded
    /\ loop' = "logout"
    /\ cmd' = "logout"
    /\ UNCHANGED <<config, aside, conn, seen, sess, idling, pc, work, cancelled, deadline, found,
                   valid, results, idx, folder, passes, passErr, h>>

\* The server answers the Logout: the session is closed, and with it the
\* IDLE request.
LogoutCompletes ==
    /\ mode = "legacy" /\ loop = "logout" /\ sess # "out"
    /\ sess' = "out"
    /\ idling' = FALSE
    /\ cmd' = "none"
    /\ UNCHANGED <<config, aside, conn, seen, loop, pc, work, cancelled, deadline, found,
                   valid, results, idx, folder, passes, passErr, h>>

\* The second select is over (logoutDone was closed, or 3 s have passed):
\* shutdownIDLE returns and Serve returns nil.
ShutdownWaitLogout ==
    /\ mode = "legacy" /\ loop = "logout"
    /\ sess = "out" \/ LogoutWaitBounded
    /\ loop' = "returned"
    /\ cmd' = "none"
    /\ UNCHANGED <<config, aside, conn, seen, sess, idling, pc, work, cancelled, deadline, found,
                   valid, results, idx, folder, passes, passErr, h>>

\* --------------------------------------------------------------- deliveries
\* The server answers a command whose caller gave up waiting: the goroutine
\* that issued it ends and nothing is outstanding any more.
LateAnswer ==
    /\ h.stale = "yes"
    /\ h' = [h EXCEPT !.stale = "no"]
    /\ cmd' = "none"
    /\ UNCHANGED <<config, aside, conn, seen, sess, idling, loop, pc, work, cancelled, deadline,
                   found, valid, results, idx, folder, passes, passErr>>

\* A message is delivered to INBOX while the worker of Serve (serve.go) holds
\* the permit: the MailboxUpdate that tells of it reaches the select of Serve
\* before the worker has released the permit, finds the channel full and is
\* dropped.
ArriveDuringPass ==
    /\ mode = "serve" /\ loop = "select" /\ ~PermitFree(work) /\ arriving # {}
    /\ sess \in {"rw", "ro", "nosel"}
    /\ LET u == Min(arriving)
       IN  /\ arriving' = arriving \ {u}
           /\ h' = [h EXCEPT !.dropped = @ \cup {u}]
    /\ cmd' = "none"
    /\ UNCHANGED <<config, conn, input, output, web, seen, sess, idling, loop, pc, work, cancelled,
                   deadline, found, valid, results, idx, folder, passes, passErr>>

\* -------------------------------------------------------- message functions
\* A part of a multipart entity as extractBodies sees it: the media type of
\* its Content-Type, the disposition and the filename parameter of its
\* Content-Disposition (NoName: no such parameter), its decoded body, and what
\* goes wrong when it is read: "header" (mr.NextPart() returns an error),
\* "body" (io.ReadAll(part.Body) returns an error) or "none".
NoName == "<no filename>"

\* The Content-Disposition of the part is one mime.ParseMediaType returns an
\* error for.
Unparsed == "<unparseable>"

MimePart(ctype, disp, name, data, fault) ==
    [ctype |-> ctype, disp |-> disp, name |-> name, data |-> data, fault |-> fault]

PartPool ==
    { MimePart("text/plain", "", NoName, "plain body", "none"),
      MimePart("text/html", "", NoName, "<b>html body</b>", "none"),
      MimePart("text/plain", "", NoName, "second plain body", "none"),
      MimePart("text/html", "inline", NoName, "<i>second html body</i>", "none"),
      MimePart("application/pdf", "attachment", "a.pdf", "%PDF-a", "none"),
      MimePart("text/plain", "attachment", "notes.txt", "notes", "none"),
      MimePart("image/png", "attachment", NoName, "PNG-1", "none"),
      MimePart("application/zip", "attachment", Unparsed, "PK-1", "none"),
      MimePart("application/zip", "", Unparsed, "PK-2", "none"),
      MimePart("image/png", "inline", "logo.png", "PNG-2", "none"),
      MimePart("application/pdf", "attachment", "b.pdf", "%PDF-b", "header"),
      MimePart("application/pdf", "attachment", "c.pdf", "%PDF-c", "body") }

\* strings.HasPrefix(mediaType, "multipart/") on the media types of the model.
IsMultipart(mediaType) == mediaType \in {"multipart/mixed", "multipart/alternative"}

MimeEntity(ctype, parts, data, fault) ==
    [kind |-> "mime", ctype |-> ctype, parts |-> parts, data |-> data, fault |-> fault]

\* The entities given to extractBodies: multipart ones of up to MaxParts
\* parts, and single-part ones.
MimeInputs ==
    { MimeEntity("multipart/mixed", parts, "", "none") :
        parts \in UNION {[1..n -> PartPool] : n \in 0..MaxParts} }
    \cup { MimeEntity(ctype, <<>>, "the body", fault) :
             ctype \in {"text/plain", "text/html", "image/png"},
             fault \in {"none", "body"} }

Bodies(text, html, attachments) ==
    [kind |-> "bodies", text |-> text, html |-> html, attachments |-> attachments]

\* The alternative the code does not take: the filename is what the
\* Content-Disposition yields, without a default.
AttachmentNameRaw(p) == p.name

\* The filename of an attachment: "attachment" unless the Content-Disposition
\* can be parsed and has a filename parameter.
AttachmentName(p) == IF p.name \in {NoName, Unparsed} THEN "attachment" ELSE p.name

Attachment(p) == [Filename |-> AttachmentName(p), ContentType |-> p.ctype, Data |-> p.data]

\* The alternative the code does not take: a part is an attachment when it
\* declares a filename.
IsNamedPart(p) == p.name # NoName

\* extractBodies: the test that makes a part an attachment.
IsAttachmentPart(p) == p.disp = "attachment"

\* The alternative the code does not take: the first body of a type is kept.
ExtractPartFirstWins(acc, p) ==
    IF IsAttachmentPart(p)
      THEN [acc EXCEPT !.attachments = Append(@, Attachment(p))]
      ELSE CASE p.ctype = "text/plain" /\ acc.text = "" -> [acc EXCEPT !.text = p.data]
             [] p.ctype = "text/html" /\ acc.html = "" -> [acc EXCEPT !.html = p.data]
             [] OTHER -> acc

\* extractBodies: the loop body for a part that was read without error.
ExtractPart(acc, p) ==
    IF IsAttachmentPart(p)
      THEN [acc EXCEPT !.attachments = Append(@, Attachment(p))]
      ELSE CASE p.ctype = "text/plain" -> [acc EXCEPT !.text = p.data]
             [] p.ctype = "text/html" -> [acc EXCEPT !.html = p.data]
             [] OTHER -> acc

\* extractBodies: the loop over the parts from part i on.  An error of
\* mr.NextPart() other than io.EOF leaves the loop (break); an error of
\* io.ReadAll is logged and the loop continues with the next part.
RECURSIVE ExtractFrom(_, _, _)
ExtractFrom(parts, i, acc) ==
    IF i > Len(parts) THEN acc
    ELSE IF parts[i].fault = "header" THEN acc
    ELSE IF parts[i].fault = "body" THEN ExtractFrom(parts, i + 1, acc)
    ELSE ExtractFrom(parts, i + 1, ExtractPart(acc, parts[i]))

extractBodies(entity) ==
    IF IsMultipart(entity.ctype)
      THEN ExtractFrom(entity.parts, 1, Bodies("", "", <<>>))
      ELSE IF entity.fault # "none" THEN Bodies("", "", <<>>)
      ELSE CASE entity.ctype = "text/plain" -> Bodies(entity.data, "", <<>>)
             [] entity.ctype = "text/html" -> Bodies("", entity.data, <<>>)
             [] OTHER -> Bodies("", "", <<>>)

\* extractBodies is applied to the entity.
Decompose ==
    /\ input.kind = "mime" /\ output = NoOutput
    /\ output' = extractBodies(input)
    /\ UNCHANGED <<config, conn, arriving, input, web, seen, sess, idling, cmd, loop, pc, work,
                   cancelled, deadline, found, valid, results, idx, folder, passes,
                   passErr, h>>

\* What ForwardMail composes from: smtp.username, the From list and the
\* subject of the original envelope, subject.prefix and recipients of the
\* configuration.  Subjects and prefixes are sequences of tokens.
ForwardInput(user, from, subject, prefix, recipients) ==
    [kind |-> "fwd", user |-> user, from |-> from, subject |-> subject,
     prefix |-> prefix, recipients |-> recipients]

ForwardInputs ==
    { ForwardInput("relay@org.example", from, subject, prefix, recipients) :
        from \in {<<"Board@Org.Example">>, <<"eve@org.example", "Board@Org.Example">>},
        subject \in {<<>>, <<"Minutes">>, <<"Re:", " ", "Minutes">>},
        prefix \in {<<>>, <<"[Reflector]">>, <<"[Fwd]", ":">>},
        recipients \in {<<>>, <<"a@org.example">>, <<"a@org.example", "b@org.example">>,
                        <<"b@org.example", "Board@Org.Example">>} }

\* fmt.Sprintf("%s %s", subjectPrefix, original.Envelope.Subject) when the
\* prefix is not empty, the original subject otherwise.
ForwardSubject(prefix, subject) ==
    IF prefix # <<>> THEN prefix \o <<" ">> \o subject ELSE subject

\* The alternative the code does not take: the recipients in a visible header.
RecipientHeaderCc == "Cc"

\* The header ForwardMail puts the recipient list in.
RecipientHeader == "Bcc"

\* The headers ForwardMail sets on the outgoing message, by name.
ForwardHeaders(in) ==
    [kind |-> "headers",
     fields |-> ("From" :> <<in.user>>)
                @@ ("To" :> <<in.from[1]>>)
                @@ ("Reply-To" :> <<in.from[1]>>)
                @@ (RecipientHeader :> in.recipients)
                @@ ("Subject" :> <<ForwardSubject(in.prefix, in.subject)>>)]

\* ForwardMail composes the outgoing message.
Compose ==
    /\ input.kind = "fwd" /\ output = NoOutput
    /\ output' = ForwardHeaders(input)
    /\ UNCHANGED <<config, conn, arriving, input, web, seen, sess, idling, cmd, loop, pc, work,
                   cancelled, deadline, found, valid, results, idx, folder, passes,
                   passErr, h>>

\* ------------------------------------------------------------ specification
PassStep ==
    \/ WithConnStopIdle
    \/ Search
    \/ Validate
    \/ DeadlineExpires
    \/ FetchAbort
    \/ FetchNext
    \/ FetchDone
    \/ SmtpSend
    \/ Serialize
    \/ SaveSelect
    \/ SaveList
    \/ SaveAppend
    \/ MarkSeen

DriverStep(limit, cap) ==
    \/ ConnectOk(limit)
    \/ ConnectFail(limit, cap)
    \/ BackoffDone
    \/ CheckReturn
    \/ CheckAgain(limit)
    \/ Cancel
    \/ ServeCancelledAtTop
    \/ ServeStartIdle
    \/ ServeUpdate(limit)
    \/ ServeUpdateDropped
    \/ ServeWorkerDone
    \/ ServeShutdown
    \/ setupIDLE
    \/ LegacyUpdate(limit)
    \/ LegacyProcessed
    \/ LegacyIdleDone
    \/ shutdownIDLE

Next == PassStep \/ DriverStep(MaxPasses, MaxFails)

Spec == Init /\ [][Next]_vars

\* One poison message, tracked by h.fails, and enough passes for a fourth
\* attempt.
InitRetry ==
    /\ mode \in Modes
    /\ InitCommon
    /\ uids = {1}
    /\ seen0 = {}
    /\ InitAside
    /\ h = InitHist(uids, "none", "off")

NextRetry == PassStep \/ DriverStep(RetryPasses, RetryFails)

SpecRetry == InitRetry /\ [][NextRetry]_vars

\* The steps the program takes by itself, as opposed to those of its
\* environment (a signal, a notification or a termination of IDLE sent by the
\* server, the passing of a deadline, the next cron run).  Every goroutine of
\* the program is scheduled, and every network operation returns or times
\* out, so a step of the program that stays possible is taken.
ProgramStep(limit, cap) ==
    \/ WithConnStopIdle \/ Search \/ Validate \/ FetchAbort \/ FetchNext \/ FetchDone
    \/ SmtpSend \/ Serialize \/ SaveSelect \/ SaveList \/ SaveAppend \/ MarkSeen
    \/ ConnectOk(limit) \/ ConnectFail(limit, cap) \/ BackoffDone \/ CheckReturn
    \/ ServeCancelledAtTop \/ ServeStartIdle \/ ServeWorkerDone \/ ServeShutdown
    \/ setupIDLE \/ LegacyProcessed \/ shutdownIDLE

\* One message, in INBOX from the start or delivered during a pass.
InitLive ==
    /\ mode \in Modes
    /\ InitCommon
    /\ uids = {1}
    /\ seen0 = {}
    /\ arriving \in SUBSET uids
    /\ input = NoInput /\ output = NoOutput /\ web = WebOff
    /\ h = InitHist(uids, "none", "off")

NextLive ==
    PassStep \/ DriverStep(LivePasses, LiveFails) \/ CancelElsewhere \/ ArriveDuringPass

SpecLive == InitLive /\ [][NextLive]_vars /\ WF_vars(ProgramStep(LivePasses, LiveFails))

\* Serve (part_003) on one message, with shutdownIDLE step by step.
InitDown ==
    /\ mode = "legacy"
    /\ InitCommon
    /\ uids = {1}
    /\ seen0 = {}
    /\ InitAside
    /\ h = InitHist(uids, "none", "off")

\* The steps Serve (part_003) takes by itself; timers fire.
DownProgramStep ==
    \/ Search \/ Validate \/ FetchAbort \/ FetchNext \/ FetchDone
    \/ SmtpSend \/ Serialize \/ SaveSelect \/ SaveList \/ SaveAppend \/ MarkSeen
    \/ ConnectOk(DownPasses) \/ ConnectFail(DownPasses, DownFails) \/ BackoffDone
    \/ setupIDLE \/ LegacyProcessed
    \/ ShutdownCloseStop \/ ShutdownWaitIdle \/ ShutdownWaitLogout

NextDown ==
    \/ DownProgramStep
    \/ DeadlineExpires \/ Cancel \/ LegacyUpdate(DownPasses) \/ LegacyIdleDone
    \/ IdleGoroutineEnds \/ LogoutCompletes

SpecDown == InitDown /\ [][NextDown]_vars /\ WF_vars(DownProgramStep)

\* The check command on a mailbox whose UIDs do not start at 1, the run
\* recorded in detail.
InitSparse ==
    /\ mode = "check"
    /\ InitMailbox(SparseMailboxes)
    /\ InitProgram
    /\ InitAside
    /\ h = InitHist({}, "off", "no")

NextSparse ==
    \/ Search \/ Validate \/ DeadlineExpires \/ FetchAbort \/ FetchNext \/ FetchDone
    \/ SmtpSend \/ Serialize \/ SaveSelect \/ SaveList \/ SaveAppend \/ MarkSeen
    \/ ConnectOk(SparsePasses) \/ ConnectFail(SparsePasses, SparseFails)
    \/ CheckReturn \/ CheckAgain(SparsePasses)

SpecSparse == InitSparse /\ [][NextSparse]_vars

\* Two unseen messages, the run recorded in detail.
InitPair ==
    /\ mode \in Modes
    /\ InitCommon
    /\ uids = {1, 2}
    /\ seen0 = {}
    /\ InitAside
    /\ h = InitHist({}, "off", "no")

NextPair == PassStep \/ DriverStep(PairPasses, PairFails) \/ LateAnswer

SpecPair == InitPair /\ [][NextPair]_vars

\* ------------------------------------------------------------ web dashboard
\* AuthManager (auth.go) and the handlers that use it.  web.now is the clock
\* in hours, web.issued the number of session ids generated so far (ids are
\* 32 random bytes: each one is new), web.store the map a.sessions as a
\* function from the ids it holds to their ExpiresAt, web.reqs the requests
\* to pages behind RequireAuth, and web.gone (history) the ids that were
\* deleted from the map.

\* ExpiresAt: time.Now().Add(24 * time.Hour).
SessionTTL == 24

mailVars == <<config, conn, arriving, input, output, seen, sess, idling, cmd, loop, pc, work,
              cancelled, deadline, found, valid, results, idx, folder, passes, passErr, h>>

\* A request slot without a request.  cookie: the id the session cookie
\* names, 0 without cookie.  exists, exp: what GetSession read under the read
\* lock.  stale (history): at that read the id was missing or expired.
NoRequest == [pc |-> "idle", cookie |-> 0, exists |-> FALSE, exp |-> 0, stale |-> FALSE]

WebInit ==
    [kind |-> "on", now |-> 0, issued |-> 0, store |-> <<>>,
     reqs |-> [r \in 1..MaxRequests |-> NoRequest], gone |-> {}]

\* The alternative the code does not take: sessions that do not expire.
SessionNeverExpired(now, expiresAt) == FALSE

\* time.Now().After(session.ExpiresAt).
SessionExpired(now, expiresAt) == now > expiresAt

\* delete(a.sessions, sessionID).
DeleteSession(store, id) == [i \in DOMAIN store \ {id} |-> store[i]]

\* A value for the session cookie that is the id of no session.
ForgedId == MaxSessions + 1

\* The values a client sends as session cookie: none (0), an id that was
\* issued, or one it made up.
Cookies == (0..web.issued) \cup {ForgedId}

\* Time passes.
ClockTick ==
    /\ web # WebOff /\ web.now + TickHours <= MaxClock
    /\ web' = [web EXCEPT !.now = @ + TickHours]
    /\ UNCHANGED mailVars

\* handleLogin, POST with valid credentials: CreateSession stores a session
\* under a new id and the id is set as the session cookie.
handleLogin ==
    /\ web # WebOff /\ web.issued < MaxSessions
    /\ LET id == web.issued + 1
       IN  web' = [web EXCEPT !.issued = id,
                              !.store = [i \in DOMAIN @ \cup {id} |->
                                           IF i = id THEN web.now + SessionTTL ELSE @[i]]]
    /\ UNCHANGED mailVars

\* handleLogout, POST: DeleteSession of the id the cookie names, whatever it
\* is.
handleLogout ==
    /\ web # WebOff
    /\ \E c \in Cookies \ {0} :
         web' = [web EXCEPT !.store = DeleteSession(@, c),
                            !.gone = IF c \in DOMAIN web.store THEN @ \cup {c} ELSE @]
    /\ UNCHANGED mailVars

\* RequireAuth: a request arrives.  Without cookie it is redirected to
\* /login; else GetSession reads the map under the read lock.
RequireAuthLookup(r) ==
    /\ web # WebOff /\ web.reqs[r].pc = "idle"
    /\ \E c \in Cookies :
         LET exists == c \in DOMAIN web.store
             exp == IF exists THEN web.store[c] ELSE 0
         IN  web' = [web EXCEPT !.reqs[r] =
                        IF c = 0 THEN [NoRequest EXCEPT !.pc = "redirected", !.stale = TRUE]
                        ELSE [pc |-> "looked", cookie |-> c, exists |-> exists, exp |-> exp,
                              stale |-> ~exists \/ web.now > exp]]
    /\ UNCHANGED mailVars

\* GetSession after the read lock is released: a missing or expired session
\* is refused, an expired one is deleted from the map; RequireAuth redirects
\* to /login or calls the protected handler.
RequireAuthDecide(r) ==
    /\ web # WebOff /\ web.reqs[r].pc = "looked"
    /\ LET q == web.reqs[r]
           refused == ~q.exists \/ SessionExpired(web.now, q.exp)
           deleted == refused /\ q.exists
       IN  web' = [web EXCEPT !.reqs[r].pc = IF refused THEN "redirected" ELSE "served",
                              !.store = IF deleted THEN DeleteSession(@, q.cookie) ELSE @,
                              !.gone = IF deleted /\ q.cookie \in DOMAIN web.store
                                         THEN @ \cup {q.cookie} ELSE @]
    /\ UNCHANGED mailVars

\* The response is written: the request is over.
RequestDone(r) ==
    /\ web # WebOff /\ web.reqs[r].pc \in {"served", "redirected"}
    /\ web' = [web EXCEPT !.reqs[r] = NoRequest]
    /\ UNCHANGED mailVars

\* cleanupExpiredSessions: one tick of the ticker, under the write lock.
cleanupExpiredSessions ==
    /\ web # WebOff
    /\ LET expired == {i \in DOMAIN web.store : SessionExpired(web.now, web.store[i])}
       IN  /\ expired # {}
           /\ web' = [web EXCEPT !.store = [i \in DOMAIN @ \ expired |-> @[i]],
                                 !.gone = @ \cup expired]
    /\ UNCHANGED mailVars

\* The message functions of the relay on every input of the model, apart
\* from any session.
InitMessage ==
    /\ mode = "check"
    /\ InitCommon
    /\ uids = {}
    /\ arriving = {}
    /\ input \in MimeInputs \cup ForwardInputs
    /\ output = NoOutput
    /\ web = WebOff
    /\ h = InitHist({}, "off", "off")

NextMessage == Decompose \/ Compose

SpecMessage == InitMessage /\ [][NextMessage]_vars

\* The web dashboard, apart from the relay.
InitWeb ==
    /\ mode = "check"
    /\ InitCommon
    /\ filterFrom = <<"BOARD@org.example">>
    /\ uids = {}
    /\ arriving = {} /\ input = NoInput /\ output = NoOutput
    /\ web = WebInit
    /\ h = InitHist({}, "off", "off")

NextWeb ==
    \/ ClockTick \/ handleLogin \/ handleLogout \/ cleanupExpiredSessions
    \/ \E r \in 1..MaxRequests : RequireAuthLookup(r) \/ RequireAuthDecide(r) \/ RequestDone(r)

SpecWeb == InitWeb /\ [][NextWeb]_vars

\* ------------------------------------------------------------------- claims
Matching(u) == isFromAddressMatching(fromOf[u], NormalizedFilters(filterFrom))

Log == h.p.log

HasEv(kind, u, ok) == \E i \in 1..Len(Log) : Log[i] = Ev(kind, u, ok)

CountEv(kind, u) == Cardinality({i \in 1..Len(Log) : Log[i].kind = kind /\ Log[i].uid = u})

OrdinaryCommands == {"search", "uidfetch", "uidstore", "select", "list", "append"}

\* C1 (as claimed): a message of an allowed sender that was unseen before the
\* program ran carries \Seen only if an SMTP send of it has succeeded.
C1_SeenOnlyAfterSend ==
    \A u \in uids : (u \in seen /\ u \notin seen0 /\ Matching(u)) => u \in h.sent

\* C2 (as claimed): in the log of a pass every mark-seen of a UID directly
\* follows the successful forward of that UID, and a message that was unseen
\* when the pass began and whose forward failed has no mark-seen in the pass
\* and is still unseen.
C2_MarkOnlyAfterForward ==
    /\ \A i \in 1..Len(Log) :
         Log[i].kind = "mark" => i > 1 /\ Log[i - 1] = Ev("fwd", Log[i].uid, TRUE)
    /\ \A u \in h.p.unseen :
         HasEv("fwd", u, FALSE) => CountEv("mark", u) = 0 /\ u \notin seen

\* C3 (as claimed): the \Seen flags change only in a step that issues the
\* UID STORE of markAsSeen; a body fetch leaves them as they are.
C3_FetchIsPeek == [][seen' # seen => cmd' = "uidstore"]_vars

\* C4 (as claimed): when the fetch returns without any per-message failure,
\* the summaries are exactly those of the messages that were unseen when the
\* pass began and whose first From address matches the allow-list.
C4_FetchReturnsMatching ==
    (h.p.fetched = "ok" /\ h.p.errs = {})
        => h.p.ret = {u \in h.p.unseen : Matching(u)}

\* C5: when the forward loop of a pass is over, every fetched message has had
\* exactly one forward attempt, every message whose forward succeeded exactly
\* one mark-seen attempt and every other none, and the pass returned nil,
\* whichever forwards and marks failed.
C5_PassIsolatesFailures ==
    (pc = "done" /\ h.p.fetched = "ok" /\ h.p.ret # {})
        => /\ passErr = "nil"
           /\ \A u \in h.p.ret :
                /\ CountEv("fwd", u) = 1
                /\ CountEv("mark", u) = (IF HasEv("fwd", u, TRUE) THEN 1 ELSE 0)

\* C5 witness: a pass is over in which the first message failed to forward and
\* a later one was forwarded and marked.
C5_Witness ==
    /\ pc = "done" /\ Len(Log) >= 3
    /\ Log[1].kind = "fwd" /\ ~Log[1].ok
    /\ \E u \in h.p.ret : HasEv("fwd", u, TRUE) /\ HasEv("mark", u, TRUE)

C7_SentMeansForwarded ==
    \A i \in 2..Len(Log) :
        (Log[i].kind = "fwd" /\ Log[i - 1] = Ev("smtp", Log[i].uid, TRUE)) => Log[i].ok

\* C8 (as claimed): a message that was unseen when the pass began and whose
\* mark-seen failed after a successful forward is still unseen, so that the
\* next pass finds it again.
C8_MarkFailureKeepsUnseen ==
    \A u \in h.p.unseen :
        HasEv("mark", u, FALSE) => HasEv("fwd", u, TRUE) /\ u \notin seen

\* C9 (as claimed): no UID is fetched in phase 2 once it has failed
\* FailureThreshold consecutive times.
C9_SkipAfterThreeFailures == ~h.late

\* C10 (as claimed): no ordinary command is issued while an IDLE request is
\* outstanding on the session.
C10_NoCommandWhileIdle == idling => cmd \notin OrdinaryCommands

\* C11: in Serve (serve.go) the permit is held exactly while a pass started by
\* a notification is in flight, whatever that pass returns, and a pass starts
\* only when no pass is in flight and the permit is free: a notification that
\* arrives while the permit is held starts nothing.
C11_SinglePassInFlight ==
    /\ [](mode = "serve" => (work <=> (pc # "off" /\ loop # "initial")))
    /\ [][passes' # passes => (pc = "off" /\ ~work)]_vars

\* C11 witness: a pass started by a notification has failed and the permit is
\* free again.
C11_Witness ==
    /\ mode = "serve" /\ loop = "select" /\ pc = "off"
    /\ ~work /\ h.cp >= 2 /\ passErr = "err"

\* C12 (as claimed): whenever Serve waits in its select on a session without
\* an outstanding IDLE, it eventually has an IDLE outstanding again or leaves
\* the select (to reconnect or to return).
C12_IdleLossReconnects ==
    (mode # "check" /\ loop = "select" /\ ~idling) ~> (idling \/ loop # "select")

\* The delay of the claim after n consecutive failures: the base delay doubled
\* n - 1 times, at most 5 minutes.
ClaimedBackoff(n) ==
    IF BackoffUnit * 2^(n - 1) > BackoffMaxDelay THEN BackoffMaxDelay
    ELSE BackoffUnit * 2^(n - 1)

\* C13 (as claimed): the delay Serve (serve.go) sleeps after its n-th
\* consecutive failed connect is the base delay doubled n - 1 times, capped at
\* 5 minutes.
C13_BackoffDoubles ==
    (mode = "serve" /\ loop = "backoff") => delay = ClaimedBackoff(h.cf)

\* C14: the first failed connect after a successful one is followed by the
\* base delay, whether or not failures preceded that success.
C14_ResetOnConnect ==
    (mode = "serve" /\ loop = "backoff" /\ h.since \in {"clean", "retried"} /\ h.cf = 1)
        => delay = BackoffUnit

\* C14 witness: Serve sleeps the base delay after the first failure that
\* follows a connect which itself succeeded only after failures.
C14_Witness ==
    /\ mode = "serve" /\ loop = "backoff"
    /\ h.since = "retried" /\ h.cf = 1 /\ delay = BackoffUnit

\* C15 (as claimed): once Serve has returned, no message is sent by SMTP and
\* no \Seen flag changes.
C15_NothingAfterReturn ==
    [][(mode # "check" /\ loop = "returned") => (h'.sent = h.sent /\ seen' = seen)]_vars

\* C16 (as claimed): once the signal context is cancelled, Serve eventually
\* returns (or the passes of the behaviour are used up).
C16_CancelReturns ==
    (cancelled /\ passes < LivePasses) ~> (loop = "returned" \/ passes = LivePasses)

\* C17: while the initial pass of a connection runs no IDLE is outstanding and
\* it is the only pass started on the connection; Serve leaves it only when
\* the pass is over, and by issuing the IDLE request, whatever the pass
\* returned.
C17_InitialPassThenIdle ==
    /\ []((mode # "check" /\ loop = "initial") => (~idling /\ pc # "off" /\ h.cp = 1))
    /\ [][(mode # "check" /\ loop = "initial" /\ loop' # "initial")
             => (pc = "done" /\ cmd' = "idle")]_vars

\* C17 witness: Serve (serve.go) idles on a connection whose initial pass
\* failed.
C17_Witness ==
    /\ mode = "serve" /\ loop = "select" /\ idling /\ pc = "off"
    /\ h.cp = 1 /\ passErr = "err"

\* C18 (as claimed): when the worker of Serve (serve.go) ends a pass while
\* Serve is in its select and not cancelled, an IDLE is outstanding again or
\* the loop goes on to reconnect.
C18_IdleReissued ==
    [][(mode = "serve" /\ loop = "select" /\ ~cancelled /\ work /\ ~work')
          => (idling' \/ loop' \in {"connect", "backoff"})]_vars

\* C19 (as claimed): after a successful connectAndLogin INBOX is selected
\* read-write, and after a failed one no session of the call is open.
C19_ConnectAllOrNothing ==
    /\ (loop = "initial" /\ pc = "search" /\ cmd = "select") => sess = "rw"
    /\ (loop = "backoff" \/ (mode = "check" /\ loop = "returned"))
          => sess \in {"none", "out"}

\* C20 (as claimed): a mark-seen issued on an open session finds INBOX
\* selected read-write.
C20_MarkOnReadWrite ==
    (cmd = "uidstore" /\ sess \notin {"none", "out"}) => sess = "rw"
\* C21: a pass that began with no unseen message in INBOX goes from its search
\* straight to its end: nothing is validated, fetched, sent or marked, and
\* when the search was answered the fetch returned an empty list and the
\* pass returned nil.
C21_EmptyInboxIsNoop ==
    (h.p.unseen = {} /\ pc # "off")
        => /\ pc \in {"search", "done"}
           /\ h.p.validated = {} /\ h.p.tried = {} /\ Log = <<>>
           /\ h.p.fetched = "ok" => (h.p.ret = {} /\ passErr = "nil")

\* C21 witness: the pass over a mailbox whose messages are all seen has
\* returned nil.
C21_Witness ==
    /\ h.p.unseen = {} /\ uids # {} /\ pc = "done"
    /\ h.p.fetched = "ok" /\ passErr = "nil" /\ cmd = "search"
\* C22: the message ForwardMail composes carries exactly the headers From (the
\* SMTP identity), To and Reply-To (the first From address of the original),
\* Bcc (the configured recipient list, which appears in no other header) and
\* Subject: the original subject, preceded by the prefix and a space when a
\* prefix is configured.
C22_ForwardHeaders ==
    (input.kind = "fwd" /\ output # NoOutput)
        => LET f == output.fields
           IN  /\ DOMAIN f = {"From", "To", "Reply-To", "Bcc", "Subject"}
               /\ f["From"] = <<input.user>>
               /\ f["To"] = <<Head(input.from)>>
               /\ f["Reply-To"] = <<Head(input.from)>>
               /\ f["Bcc"] = input.recipients
               /\ f["Subject"] = <<IF input.prefix = <<>> THEN input.subject
                                   ELSE input.prefix \o <<" ">> \o input.subject>>

\* C22 witness: a message with two From addresses was composed for two
\* recipients under a configured prefix.
C22_Witness ==
    /\ input.kind = "fwd" /\ output # NoOutput
    /\ Len(input.from) = 2 /\ Len(input.recipients) = 2 /\ input.prefix # <<>>
    /\ output.fields["To"] = <<"eve@org.example">>

DeclaredAttachment(p) == p.disp = "attachment"

InlineOfType(parts, ctype) ==
    {i \in 1..Len(parts) : ~DeclaredAttachment(parts[i]) /\ parts[i].ctype = ctype}

\* The attachments the claims expect for a sequence of attachment parts.
ExpectedAttachments(parts) ==
    [i \in 1..Len(parts) |->
        [Filename |-> IF parts[i].name \in {NoName, Unparsed} THEN "attachment"
                      ELSE parts[i].name,
         ContentType |-> parts[i].ctype,
         Data |-> parts[i].data]]

\* The entity is multipart, every part can be read, and it consists of one
\* text/plain part, one text/html part and attachment parts.
TextHtmlAndAttachments(e) ==
    /\ e.kind = "mime" /\ IsMultipart(e.ctype)
    /\ \A i \in 1..Len(e.parts) : e.parts[i].fault = "none"
    /\ Cardinality(InlineOfType(e.parts, "text/plain")) = 1
    /\ Cardinality(InlineOfType(e.parts, "text/html")) = 1
    /\ \A i \in 1..Len(e.parts) :
          DeclaredAttachment(e.parts[i])
            \/ i \in InlineOfType(e.parts, "text/plain") \cup InlineOfType(e.parts, "text/html")

\* C23: extractBodies on a multipart entity of one text/plain part, one
\* text/html part and attachment parts, in any order, returns the body of the
\* text part, the body of the HTML part, and one attachment per attachment
\* part, in part order, with the part's filename, media type and bytes.
C23_ExtractRoundTrip ==
    (TextHtmlAndAttachments(input) /\ output # NoOutput)
        => /\ \A i \in InlineOfType(input.parts, "text/plain") :
                output.text = input.parts[i].data
           /\ \A i \in InlineOfType(input.parts, "text/html") :
                output.html = input.parts[i].data
           /\ output.attachments
                = ExpectedAttachments(SelectSeq(input.parts, DeclaredAttachment))

\* C23 witness: an entity with an attachment before the bodies and another
\* after them was decomposed into both bodies and the two attachments.
C23_Witness ==
    /\ TextHtmlAndAttachments(input) /\ output # NoOutput
    /\ Len(input.parts) = 4
    /\ DeclaredAttachment(input.parts[1]) /\ DeclaredAttachment(input.parts[4])
    /\ input.parts[1] # input.parts[4]
    /\ Len(output.attachments) = 2 /\ output.text # "" /\ output.html # ""

\* C24 (as claimed): when exactly one part of a multipart entity fails to be
\* read, extractBodies returns the attachments of all the other parts, in
\* part order, wherever the failing part is.
C24_FaultyPartSkipped ==
    (/\ input.kind = "mime" /\ IsMultipart(input.ctype) /\ output # NoOutput
     /\ Cardinality({i \in 1..Len(input.parts) : input.parts[i].fault # "none"}) = 1)
        => LET Readable(p) == p.fault = "none" /\ DeclaredAttachment(p)
           IN  output.attachments = ExpectedAttachments(SelectSeq(input.parts, Readable))
\* C25: a step of ForwardMail's send either succeeds, and the archival of that
\* message begins, or fails, and then the forward of that message is over
\* with an error at once: the pass is at the send of the next message or at
\* its end.  Serialization and the commands of saveToSent only ever follow a
\* successful send of the message at hand.
C25_OneSendNoArchiveOnFailure ==
    /\ [](pc \in {"serialize", "sts_select", "sts_list", "sts_append"}
            => (Cur.uid \in h.sent /\ \E i \in 1..Len(Log) :
                    /\ Log[i] = Ev("smtp", Cur.uid, TRUE)
                    /\ \A j \in (i + 1)..Len(Log) : Log[j].uid # Cur.uid))
    /\ [][(pc = "smtp" /\ Log' # Log)
            => \/ /\ Log' = Append(Log, Ev("smtp", Cur.uid, TRUE))
                  /\ pc' = "serialize" /\ idx' = idx
               \/ /\ Log' = Append(Log, Ev("fwd", Cur.uid, FALSE))
                  /\ h'.sent = h.sent
                  /\ cmd' = "none"
                  /\ (pc' = "smtp" /\ idx' = idx + 1) \/ pc' = "done"]_vars

\* C25 witness: the send of the first message failed and the pass is at the
\* send of the second, with nothing but that failure in its log.
C25_Witness ==
    /\ pc = "smtp" /\ idx = 2
    /\ Log = <<Ev("fwd", results[1].uid, FALSE)>>
    /\ results[1].uid \notin h.sent
\* C26 (as claimed): when the fetch of one message in phase 2 has timed out
\* because the enclosing fetch deadline expired, and validated UIDs remain,
\* the loop is not left: the fetch goes on with the remaining UIDs.
C26_TimeoutScopedToMessage ==
    [][(pc = "fetch" /\ cmd = "uidfetch" /\ deadline /\ valid # {})
          => ~h'.p.aborted]_vars
\* C27: when validateUIDs has failed, the fetch has returned an error, no
\* body was fetched, and the pass is over with that error without a forward
\* or a mark and without a change of the flags of the messages it found
\* unseen; when validateUIDs succeeded without a valid UID, the fetch has
\* returned an empty list and the pass is over with nil.
C27_ValidationFailureAborts ==
    /\ h.p.phase1 = "err"
          => /\ pc = "done" /\ passErr = "err" /\ h.p.fetched = "err"
             /\ h.p.tried = {} /\ h.p.ret = {} /\ Log = <<>>
             /\ h.p.unseen \cap seen = {}
    /\ (h.p.phase1 = "ok" /\ h.p.validated = {})
          => /\ pc = "done" /\ passErr = "nil" /\ h.p.fetched = "ok"
             /\ h.p.tried = {} /\ h.p.ret = {} /\ Log = <<>>

\* C27 witness: validateUIDs failed in a pass of Serve that had found two
\* unseen messages.
C27_Witness ==
    /\ mode = "serve" /\ h.p.phase1 = "err" /\ Cardinality(h.p.unseen) = 2
    /\ pc = "done" /\ passErr = "err"

\* The second case of C27 happens: validateUIDs succeeded and found no valid
\* UID among the numbers the search returned.
C27_WitnessEmpty ==
    /\ h.p.phase1 = "ok" /\ h.p.validated = {} /\ h.p.unseen # {}
    /\ pc = "done" /\ passErr = "nil"
\* C28 (as claimed): while a command whose caller timed out is still
\* outstanding on the open session, the pass issues no further command on it.
C28_OneCommandInFlight ==
    [][(h.stale = "yes" /\ pc \notin {"off", "done"} /\ sess \in {"rw", "ro", "nosel"}
          /\ sess' = sess)
          => cmd' \notin OrdinaryCommands]_vars
\* C29 (as claimed): a message whose notification was dropped because the
\* permit was taken is eventually among the unseen messages a search of a
\* pass is answered with, unless Serve leaves its select (the connection is
\* given up or Serve returns), the pass in flight fails, or IDLE cannot be
\* started again after it.
C29_DroppedIsPickedUp ==
    (h.dropped # {})
        ~> \/ h.dropped \subseteq h.picked
           \/ loop # "select"
           \/ pc = "off" /\ (passErr = "err" \/ ~idling)

\* C30: saveToSent tries the candidate folders from the first one on, one
\* after the other in list order; while it tries, no append has succeeded;
\* it returns nil exactly when an append succeeded, and never has more than
\* one append succeeded for a message.
C30_FirstSentFolderWins ==
    /\ [](pc = "sts_append"
            => (folder \in 1..NumSentFolders /\ h.p.copies = 0 /\ h.p.archived = "none"))
    /\ [](h.p.copies <= 1 /\ (h.p.archived # "none" => (h.p.archived = "nil" <=> h.p.copies = 1)))
    /\ [][(pc # "sts_append" /\ pc' = "sts_append") => (cmd' = "list" /\ folder' = 1)]_vars
    /\ [][(pc = "sts_append" /\ pc' = "sts_append" /\ cmd' = "append") => folder' = folder + 1]_vars
    /\ [][(pc = "sts_append" /\ pc' # "sts_append")
            => (cmd' = "append" /\ h'.p.archived \in {"nil", "err"})]_vars

\* C30 witness: saveToSent has returned nil for the second message of a pass,
\* with one copy stored.
C30_Witness ==
    /\ pc = "mark" /\ cmd = "append"
    /\ h.p.copies = 1 /\ h.p.archived = "nil"
    /\ h.stale = "no" /\ idx = 2
\* C31: in saveToSent an append answered with "no such mailbox" is followed by
\* the append to the next candidate (when there is one), and an append
\* answered with a continuation-request error ends the call with an error:
\* a candidate is only ever tried after errors of other kinds.
C31_NoSuchTriesNextNoContStops ==
    /\ []((pc = "sts_append" /\ folder > 1) => h.p.last \in {"nosuch", "other"})
    /\ [][(pc = "sts_append" /\ cmd' = "append" /\ h'.p.last = "nosuch"
              /\ folder < NumSentFolders)
            => (pc' = "sts_append" /\ folder' = folder + 1)]_vars
    /\ [][(pc = "sts_append" /\ cmd' = "append" /\ h'.p.last = "nocont")
            => (pc' # "sts_append" /\ h'.p.archived = "err" /\ h'.p.copies = 0)]_vars

\* C31 witness: saveToSent has returned an error right after an append that
\* was answered with a continuation-request error.
C31_Witness ==
    /\ pc = "mark" /\ cmd = "append"
    /\ h.p.last = "nocont" /\ h.p.archived = "err" /\ h.p.copies = 0

\* The first case of C31 happens: the third candidate is about to be tried
\* after a "no such mailbox" answer for the second.
C31_NextCandidateTried == pc = "sts_append" /\ folder = 3 /\ h.p.last = "nosuch"
\* C32: shutdownIDLE issues its logout in one step only, the one that ends
\* the wait for the idle goroutine, which follows close(stop); and once
\* entered it returns, also when the idle goroutine never ends and the
\* logout is never answered.
C32_ShutdownIsBounded ==
    /\ [][(loop \in {"stopping", "logout"} /\ cmd' = "logout")
            => (loop = "stopping" /\ loop' = "logout")]_vars
    /\ (loop = "stopping") ~> (loop = "returned")

\* C32 witness: Serve has returned through shutdownIDLE although the idle
\* goroutine has not ended and the logout has not been answered.
C32_Witness ==
    /\ mode = "legacy" /\ loop = "returned" /\ cancelled
    /\ idling /\ sess # "out"
\* C33 (as claimed): in a one-shot check no IMAP command is issued on a
\* session that has been logged out, and when CheckAndForward has returned
\* no session that a pass has used is left logged in.
C33_NoCommandAfterLogout ==
    /\ [][(mode = "check" /\ cmd' \in OrdinaryCommands) => sess # "out"]_vars
    /\ []((mode = "check" /\ loop = "returned") => sess \notin {"rw", "ro", "nosel"})
\* C34 (as claimed): in the one-shot check every forwarded message carries
\* \Seen, and the run that follows a run in which the servers accepted every
\* request gets no message from its fetch and sends nothing.
C34_CleanCheckIsIdempotent ==
    /\ mode = "check" => h.sent \subseteq seen
    /\ (mode = "check" /\ h.prev = "clean") => (h.p.ret = {} /\ Log = <<>>)

\* C35 (as claimed): whenever Serve is about to connect, the session it
\* opened before is closed and no IDLE request is outstanding on it.
C35_OneOpenSession ==
    (mode # "check" /\ loop = "connect") => (sess \notin {"rw", "ro", "nosel"} /\ ~idling)
\* C36: every summary in the list of a pass, and so every summary handed to
\* ForwardMail, carries a first From address, whatever the mailbox holds.
C36_SummaryHasFrom ==
    /\ \A i \in 1..Len(results) : results[i].from # NoFrom
    /\ pc \in {"smtp", "serialize", "sts_select", "sts_list", "sts_append", "mark"}
          => (idx \in 1..Len(results) /\ Cur.from # NoFrom)

\* C36 witness: a message is handed to ForwardMail in a pass that has also
\* fetched an unseen message without a From address.
C36_Witness ==
    /\ pc = "smtp" /\ Cur.from # NoFrom
    /\ \E u \in h.p.tried \ h.p.errs : fromOf[u] = NoFrom
\* The body extractBodies is to return for media type ctype: the content of
\* the last part of that type that is not an attachment, "" without one.
LastInlineBody(parts, ctype) ==
    LET S == InlineOfType(parts, ctype)
    IN  IF S = {} THEN "" ELSE parts[CHOOSE i \in S : \A j \in S : j <= i].data

\* C37: extractBodies on a multipart entity whose parts can all be read
\* returns as text body the content of the last text/plain part that is not
\* an attachment and as HTML body the content of the last such text/html
\* part: an earlier part of the same type leaves no trace.
C37_LastBodyWins ==
    (/\ input.kind = "mime" /\ IsMultipart(input.ctype) /\ output # NoOutput
     /\ \A i \in 1..Len(input.parts) : input.parts[i].fault = "none")
        => /\ output.text = LastInlineBody(input.parts, "text/plain")
           /\ output.html = LastInlineBody(input.parts, "text/html")

\* C37 witness: an entity with two different text/plain parts and two
\* different text/html parts was decomposed, and the bodies are those of the
\* later parts.
C37_Witness ==
    /\ input.kind = "mime" /\ IsMultipart(input.ctype) /\ output # NoOutput
    /\ Len(input.parts) = 4
    /\ InlineOfType(input.parts, "text/plain") = {1, 3}
    /\ InlineOfType(input.parts, "text/html") = {2, 4}
    /\ input.parts[1].data # input.parts[3].data
    /\ input.parts[2].data # input.parts[4].data
    /\ output.text = input.parts[3].data /\ output.html = input.parts[4].data
C39_SessionGate ==
    /\ [](\A r \in 1..MaxRequests :
            web.reqs[r].pc = "served"
              => /\ ~web.reqs[r].stale
                 /\ web.reqs[r].cookie \in 1..web.issued)
    /\ [](web.gone \cap DOMAIN web.store = {})
    /\ [][\A r \in 1..MaxRequests :
            (web.reqs[r].pc = "idle" /\ web'.reqs[r].pc = "looked"
               /\ web'.reqs[r].cookie \in web.gone)
              => web'.reqs[r].stale]_vars
    /\ [][\A r \in 1..MaxRequests :
            (web.reqs[r].pc = "looked" /\ web'.reqs[r].pc = "served")
              => web.now <= web.reqs[r].exp]_vars
    /\ [][\A r \in 1..MaxRequests :
            (web.reqs[r].pc = "looked" /\ web'.reqs[r].pc = "redirected")
              => web.reqs[r].cookie \notin DOMAIN web'.store]_vars

\* C39 witness: one request was let through to the handler while another,
\* which presented the id of a session that had expired in the store, was
\* redirected and the session is gone from the store.
C39_Witness ==
    \E r1, r2 \in 1..MaxRequests :
       /\ web.reqs[r1].pc = "served"
       /\ web.reqs[r2].pc = "redirected" /\ web.reqs[r2].exists /\ web.reqs[r2].stale
       /\ web.reqs[r2].cookie \in web.gone
       /\ web.reqs[r2].cookie \notin DOMAIN web.store
=============================================================================
